---- MODULE Spec2Model ----
(***************************************************************************)
(* Model of PacketQ (src/src/packetqueue.h): the outbound packet queue of  *)
(* the HR20 master.  Upper layers reserve a slot per destination with      *)
(* want_to_send_for and push payload bytes into the returned buffer; the   *)
(* radio code freezes one slot with prepare_to_send_to and drains the      *)
(* framed bytes with peek / pop.                                           *)
(***************************************************************************)
EXTENDS Integers, Sequences, FiniteSets, TLC

(***************************************************************************)
(* Bounds of the model.                                                    *)
(***************************************************************************)
\* number of slots of the table (PACKET_QUEUE_LEN is 32 in the source)
QueueLen == 2
\* PacketQ::packet_max_age, the constructor parameter
packet_max_age == 1
\* a caller stops pushing once a packet holds MaxLen bytes
MaxLen == 2
\* largest RETRY_SKIPS a RequestDelay is instantiated with
MaxSkips == 7

(***************************************************************************)
(* Program constants.                                                      *)
(***************************************************************************)
SENT_PACKET_LEN == 76
SYNC_ADDR == 33
PROLOGUE_LEN == 5
CMAC_LEN == 6
\* bytes written by Crypto::cmac_fill
CMAC_SIZE == 4
\* 0xaa, 0x2d, 0xd4: the bytes of the prologue and the trailing dummies
GIBBERISH == 170
SYNC_WORD_HI == 45
SYNC_WORD_LO == 212
\* 0x80: the sync flag of the length byte
SYNC_FLAG == 128

\* Item::addr of a free slot and of the slot being sent
FREE == -1
FROZEN == -2
\* the null Packet* / Item*
nullptr == -1

\* inputs of the operations
UnicastAddrs == {5}
Addrs == UnicastAddrs \cup {SYNC_ADDR}
\* curtime values: a slot born at 0 is stale at packet_max_age + 1 and not before
Times == {0, packet_max_age, packet_max_age + 1}
\* requested sizes: one that fits an open packet, the room of a fresh unicast
\* packet, which no open unicast packet has strictly more than, and the whole
\* buffer, which no unicast packet has room for
Bytes == {1, SENT_PACKET_LEN - 1, SENT_PACKET_LEN}
\* payload bytes the callers push
Data == {17}

Slots == 0 .. (QueueLen - 1)

(***************************************************************************)
(* ShortQ<N> (queue.h): a bounded FIFO of octets, held as the sequence of  *)
(* its live bytes, oldest first.                                           *)
(***************************************************************************)
sq_push(q, cap, b) == IF Len(q) < cap THEN Append(q, b % 256) ELSE q
sq_pop(q) == Tail(q)
sq_peek(q) == Head(q)
sq_clear(q) == << >>
sq_empty(q) == Len(q) = 0
sq_size(q) == Len(q)
sq_free_size(q, cap) == cap - Len(q)

(***************************************************************************)
(* crypto::Crypto (crypto.h).  encrypt_decrypt is a per-byte involution    *)
(* that changes every byte; cmac_fill appends a CMAC_SIZE-byte tag of the  *)
(* data, here the little-endian sum of its bytes.                          *)
(***************************************************************************)
encrypt_decrypt(data) == [i \in 1 .. Len(data) |-> 255 - data[i]]

RECURSIVE SumBytes(_)
SumBytes(data) == IF data = << >> THEN 0 ELSE Head(data) + SumBytes(Tail(data))

RECURSIVE cmac_push(_, _, _)
cmac_push(out, v, n) ==
    IF n = 0 THEN out
    ELSE cmac_push(sq_push(out, CMAC_LEN, v % 256), v \div 256, n - 1)

cmac_fill(data, out) == cmac_push(out, SumBytes(data), CMAC_SIZE)

(***************************************************************************)
(* uint8_t arithmetic.                                                     *)
(***************************************************************************)
RECURSIVE BitOr(_, _)
BitOr(a, b) ==
    IF a = 0 THEN b
    ELSE IF b = 0 THEN a
    ELSE (IF a % 2 = 1 \/ b % 2 = 1 THEN 1 ELSE 0) + 2 * BitOr(a \div 2, b \div 2)

(***************************************************************************)
(* State.                                                                  *)
(***************************************************************************)
VARIABLES
    que,       \* Item que[PACKET_QUEUE_LEN]: [addr, time, packet] per slot
    sending,   \* Item *sending, as a slot index, or nullptr
    prologue,  \* ShortQ<5> prologue
    cmac,      \* ShortQ<6> cmac
    last,      \* the last call: the operation and what it returned
    snap,      \* what the last successful prepare_to_send_to saw and left
    wire,      \* the bytes peek() gave before each pop() of the current frame,
               \* up to the first byte that is not the next one of the frame prepared
    RETRY_SKIPS, \* the template argument of the RequestDelay
    counter,   \* int8_t RequestDelay::counter
    resumed,   \* the last of construction, pause() and resume() was resume()
    falses,    \* false results of should_retry() since its last true result with
               \* no pause() or resume() in between; -1 when there is no such result
    gap        \* the value of falses at that last true result

dvars == <<RETRY_SKIPS, counter, resumed, falses, gap>>
vars == <<que, sending, prologue, cmac, last, snap, wire, dvars>>

\* Item() / Item::clear()
Item_clear == [addr |-> FREE, time |-> 0, packet |-> << >>]

\* the PacketQ object as one value
Q == [que |-> que, sending |-> sending, prologue |-> prologue, cmac |-> cmac]

(***************************************************************************)
(* want_to_send_for                                                        *)
(***************************************************************************)
\* faulty variant: the sync address is not excepted from appending
can_append_sync(it, addr, bytes) ==
    /\ it.addr = addr
    /\ sq_free_size(it.packet, SENT_PACKET_LEN) > bytes

\* line 52-53: same non-sync address and strictly more room than asked
can_append(it, addr, bytes) ==
    /\ addr # SYNC_ADDR
    /\ it.addr = addr
    /\ sq_free_size(it.packet, SENT_PACKET_LEN) > bytes

\* faulty variant: a packet is too old one tick early
can_claim_nonstrict(it, curtime) ==
    \/ it.addr = FREE
    \/ it.time + packet_max_age <= curtime

\* line 60: free spot or too old packet
can_claim(it, curtime) ==
    \/ it.addr = FREE
    \/ it.time + packet_max_age < curtime

\* faulty variant: the new packet does not start with addr
claim_noaddr(it, addr, curtime) ==
    [addr |-> addr, time |-> curtime, packet |-> sq_clear(it.packet)]

\* lines 62-67: the slot as claimed for addr; every non-sync packet starts
\* with addr
claim(it, addr, curtime) ==
    [addr   |-> addr,
     time   |-> curtime,
     packet |-> IF addr # SYNC_ADDR
                THEN sq_push(sq_clear(it.packet), SENT_PACKET_LEN, addr)
                ELSE sq_clear(it.packet)]

\* faulty variant: the free-or-too-old test comes ahead of the append test
RECURSIVE want_scan_claim_first(_, _, _, _, _)
want_scan_claim_first(q, addr, bytes, curtime, i) ==
    IF i >= QueueLen THEN [q |-> q, ret |-> nullptr]
    ELSE LET ri == QueueLen - 1 - i
             it == q.que[ri]
         IN  IF can_claim(it, curtime)
             THEN [q   |-> [q EXCEPT !.que[ri] = claim(it, addr, curtime)],
                   ret |-> ri]
             ELSE IF can_append(it, addr, bytes)
             THEN [q |-> q, ret |-> ri]
             ELSE want_scan_claim_first(q, addr, bytes, curtime, i + 1)

\* the loop of lines 46-70 from iteration i on; ret is the slot whose packet
\* is returned, or nullptr
RECURSIVE want_scan(_, _, _, _, _)
want_scan(q, addr, bytes, curtime, i) ==
    IF i >= QueueLen THEN [q |-> q, ret |-> nullptr]
    ELSE LET ri == QueueLen - 1 - i
             it == q.que[ri]
         IN  IF can_append(it, addr, bytes)
             THEN [q |-> q, ret |-> ri]
             ELSE IF can_claim(it, curtime)
             THEN [q   |-> [q EXCEPT !.que[ri] = claim(it, addr, curtime)],
                   ret |-> ri]
             ELSE want_scan(q, addr, bytes, curtime, i + 1)

\* faulty variant: the walk starts one slot late and never looks at the top slot
want_to_send_for_skip(q, addr, bytes, curtime) == want_scan(q, addr, bytes, curtime, 1)

want_to_send_for(q, addr, bytes, curtime) == want_scan(q, addr, bytes, curtime, 0)

(***************************************************************************)
(* prepare_to_send_to                                                      *)
(***************************************************************************)
\* faulty variant: the check of sending is missing
busy_never(q) == FALSE

\* line 80: a frame is being sent
busy(q) == q.sending # nullptr

\* lines 89-92: remember the slot and take it out of the open slots
st_freeze(q, i) == [q EXCEPT !.sending = i, !.que[i].addr = FROZEN]

\* lines 94-96: sign the packet as it stands
st_sign(q, i) == [q EXCEPT !.cmac = cmac_fill(q.que[i].packet, sq_clear(q.cmac))]

\* faulty variant: the sync flag is left out
length_byte_noflag(size, macsize, isSync) == (size + macsize) % 256

\* lines 104-105: the length byte, as pushed into a uint8_t queue
length_byte(size, macsize, isSync) ==
    BitOr(size + macsize, IF isSync THEN SYNC_FLAG ELSE 0) % 256

\* lines 98-105
st_prologue(q, i, isSync) ==
    LET p0 == sq_clear(q.prologue)
        p1 == sq_push(p0, PROLOGUE_LEN, GIBBERISH)
        p2 == sq_push(p1, PROLOGUE_LEN, GIBBERISH)
        p3 == sq_push(p2, PROLOGUE_LEN, SYNC_WORD_HI)
        p4 == sq_push(p3, PROLOGUE_LEN, SYNC_WORD_LO)
        p5 == sq_push(p4, PROLOGUE_LEN,
                      length_byte(sq_size(q.que[i].packet), sq_size(q.cmac), isSync))
    IN  [q EXCEPT !.prologue = p5]

\* faulty variant: one dummy byte only
st_dummy_one(q) == [q EXCEPT !.cmac = sq_push(q.cmac, CMAC_LEN, GIBBERISH)]

\* line 108: the two dummy bytes behind the cmac
st_dummy(q) ==
    [q EXCEPT !.cmac = sq_push(sq_push(q.cmac, CMAC_LEN, GIBBERISH), CMAC_LEN, GIBBERISH)]

\* faulty variant: sync packets are encrypted too
st_encrypt_always(q, i, isSync) ==
    [q EXCEPT !.que[i].packet = encrypt_decrypt(q.que[i].packet)]

\* lines 110-111: non-sync packets are encrypted in place
st_encrypt(q, i, isSync) ==
    IF ~isSync THEN [q EXCEPT !.que[i].packet = encrypt_decrypt(q.que[i].packet)]
    ELSE q

\* faulty variant: the packet is encrypted before it is signed
prepare_found_encrypt_first(q, i) ==
    LET isSync == q.que[i].addr = SYNC_ADDR
        q1 == st_freeze(q, i)
        q2 == st_encrypt(q1, i, isSync)
        q3 == st_sign(q2, i)
        q4 == st_prologue(q3, i, isSync)
        q5 == st_dummy(q4)
    IN  [q |-> q5, ret |-> TRUE]

\* lines 88-117: the body of the loop for the matching slot i
prepare_found(q, i) ==
    LET isSync == q.que[i].addr = SYNC_ADDR
        q1 == st_freeze(q, i)
        q2 == st_sign(q1, i)
        q3 == st_prologue(q2, i, isSync)
        q4 == st_dummy(q3)
        q5 == st_encrypt(q4, i, isSync)
    IN  [q |-> q5, ret |-> TRUE]

\* the loop of lines 85-119 from index i on
RECURSIVE prepare_scan(_, _, _)
prepare_scan(q, addr, i) ==
    IF i >= QueueLen THEN [q |-> q, ret |-> FALSE]
    ELSE IF q.que[i].addr = addr THEN prepare_found(q, i)
    ELSE prepare_scan(q, addr, i + 1)

\* faulty variant: the walk leaves out slot 0
prepare_to_send_to_skip(q, addr) ==
    IF busy(q) THEN [q |-> q, ret |-> FALSE]
    ELSE prepare_scan(q, addr, 1)

prepare_to_send_to(q, addr) ==
    IF busy(q) THEN [q |-> q, ret |-> FALSE]
    ELSE prepare_scan(q, addr, 0)

(***************************************************************************)
(* peek / pop                                                              *)
(***************************************************************************)
\* faulty variant: the packet is looked at before the prologue
peek_packet_first(q) ==
    IF q.sending = nullptr THEN -1
    ELSE IF ~sq_empty(q.que[q.sending].packet) THEN sq_peek(q.que[q.sending].packet)
    ELSE IF ~sq_empty(q.prologue) THEN sq_peek(q.prologue)
    ELSE IF ~sq_empty(q.cmac) THEN sq_peek(q.cmac)
    ELSE -1

peek(q) ==
    IF q.sending = nullptr THEN -1
    ELSE IF ~sq_empty(q.prologue) THEN sq_peek(q.prologue)
    ELSE IF ~sq_empty(q.que[q.sending].packet) THEN sq_peek(q.que[q.sending].packet)
    ELSE IF ~sq_empty(q.cmac) THEN sq_peek(q.cmac)
    ELSE -1

\* faulty variant: the slot sent is not cleared
pop_finish_keep_slot(q) ==
    [q EXCEPT !.prologue = sq_clear(q.prologue),
              !.cmac = sq_clear(q.cmac),
              !.sending = nullptr]

\* lines 160-165: the frame is over
pop_finish(q) ==
    [q EXCEPT !.prologue = sq_clear(q.prologue),
              !.que[q.sending] = Item_clear,
              !.cmac = sq_clear(q.cmac),
              !.sending = nullptr]

pop(q) ==
    IF q.sending = nullptr THEN [q |-> q, ret |-> FALSE]
    ELSE IF ~sq_empty(q.prologue)
    THEN [q |-> [q EXCEPT !.prologue = sq_pop(q.prologue)], ret |-> TRUE]
    ELSE IF ~sq_empty(q.que[q.sending].packet)
    THEN [q   |-> [q EXCEPT !.que[q.sending].packet = sq_pop(q.que[q.sending].packet)],
          ret |-> TRUE]
    ELSE LET q1 == IF ~sq_empty(q.cmac) THEN [q EXCEPT !.cmac = sq_pop(q.cmac)] ELSE q
         IN  IF sq_empty(q1.cmac)
             THEN [q |-> pop_finish(q1), ret |-> FALSE]
             ELSE [q |-> q1, ret |-> TRUE]

(***************************************************************************)
(* The calls, as observed by a caller.                                     *)
(***************************************************************************)
B(b) == IF b THEN 1 ELSE 0

Call(op, ret) == [op |-> op, ret |-> ret]

\* s is a prefix of t
IsPrefix(s, t) == Len(s) <= Len(t) /\ SubSeq(t, 1, Len(s)) = s

\* snap: the address prepared, the slot frozen, the packet before the call,
\* and the three queues the call left, in the order they are served
NoSnap == [addr |-> nullptr, slot |-> nullptr, plain |-> << >>,
           prologue |-> << >>, payload |-> << >>, cmac |-> << >>]

Prepared(s) == s.prologue \o s.payload \o s.cmac

\* a call that starts no frame: the record of a finished frame is dropped
Observe == IF sending = nullptr
           THEN snap' = NoSnap /\ wire' = << >>
           ELSE UNCHANGED <<snap, wire>>

Install(q) ==
    /\ que' = q.que
    /\ sending' = q.sending
    /\ prologue' = q.prologue
    /\ cmac' = q.cmac

(***************************************************************************)
(* RequestDelay<RETRY_SKIPS>.  The counter is an int8_t: it is only set to *)
(* -1, 0 or RETRY_SKIPS, or decremented while positive, so it never leaves *)
(* the range of its type.                                                  *)
(***************************************************************************)
\* faulty variant: the retry comes one call early
should_retry_early(c, skips) ==
    IF c < 0 THEN [counter |-> c, ret |-> FALSE]
    ELSE IF c <= 1 THEN [counter |-> skips, ret |-> TRUE]
    ELSE [counter |-> c - 1, ret |-> FALSE]

\* the counter should_retry() leaves and what it returns
should_retry(c, skips) ==
    IF c < 0 THEN [counter |-> c, ret |-> FALSE]
    ELSE IF c = 0 THEN [counter |-> skips, ret |-> TRUE]
    ELSE [counter |-> c - 1, ret |-> FALSE]

pause(c) == -1
resume(c) == 0
is_paused(c) == c < 0

\* RequestDelay() : counter(-1), with nothing observed yet
Constructed ==
    /\ counter = -1
    /\ resumed = FALSE
    /\ falses = -1
    /\ gap = -1

qvars == <<que, sending, prologue, cmac, snap, wire>>

ShouldRetry ==
    LET r == should_retry(counter, RETRY_SKIPS)
    IN  /\ counter' = r.counter
        /\ last' = Call("should_retry", B(r.ret))
        /\ IF r.ret
           THEN gap' = falses /\ falses' = 0
           ELSE /\ gap' = gap
                /\ falses' = IF falses >= 0 /\ falses <= MaxSkips
                             THEN falses + 1 ELSE falses
        /\ UNCHANGED <<RETRY_SKIPS, resumed, qvars>>

PauseDelay ==
    /\ counter' = pause(counter)
    /\ last' = Call("pause", 0)
    /\ resumed' = FALSE
    /\ falses' = -1
    /\ gap' = -1
    /\ UNCHANGED <<RETRY_SKIPS, qvars>>

ResumeDelay ==
    /\ counter' = resume(counter)
    /\ last' = Call("resume", 0)
    /\ resumed' = TRUE
    /\ falses' = -1
    /\ gap' = -1
    /\ UNCHANGED <<RETRY_SKIPS, qvars>>

IsPaused ==
    /\ last' = Call("is_paused", B(is_paused(counter)))
    /\ UNCHANGED <<dvars, qvars>>

Init ==
    /\ que = [i \in Slots |-> Item_clear]
    /\ sending = nullptr
    /\ prologue = << >>
    /\ cmac = << >>
    /\ last = Call("init", 0)
    /\ snap = NoSnap
    /\ wire = << >>
    /\ RETRY_SKIPS = MaxSkips
    /\ Constructed

Want(addr, bytes, curtime) ==
    LET r == want_to_send_for(Q, addr, bytes, curtime)
    IN  /\ Install(r.q)
        /\ last' = Call("want", r.ret)
        /\ Observe
        /\ UNCHANGED dvars

\* the caller fills the packet it was handed, before it calls the queue again
Push(b) ==
    /\ last.op \in {"want", "push"}
    /\ last.ret # nullptr
    /\ sq_size(que[last.ret].packet) < MaxLen
    /\ que' = [que EXCEPT ![last.ret].packet = sq_push(@, SENT_PACKET_LEN, b)]
    /\ last' = [last EXCEPT !.op = "push"]
    /\ UNCHANGED <<sending, prologue, cmac>>
    /\ Observe
    /\ UNCHANGED dvars

Prepare(addr) ==
    LET r == prepare_to_send_to(Q, addr)
    IN  /\ Install(r.q)
        /\ last' = Call("prepare", B(r.ret))
        /\ IF r.ret
           THEN /\ snap' = [addr     |-> addr,
                            slot     |-> r.q.sending,
                            plain    |-> que[r.q.sending].packet,
                            prologue |-> r.q.prologue,
                            payload  |-> r.q.que[r.q.sending].packet,
                            cmac     |-> r.q.cmac]
                /\ wire' = << >>
           ELSE Observe
        /\ UNCHANGED dvars

Peek ==
    /\ last' = Call("peek", peek(Q))
    /\ UNCHANGED <<que, sending, prologue, cmac>>
    /\ Observe
    /\ UNCHANGED dvars

Pop ==
    LET r == pop(Q)
    IN  /\ Install(r.q)
        /\ last' = Call("pop", B(r.ret))
        /\ IF sending # nullptr
           THEN /\ wire' = IF IsPrefix(wire, Prepared(snap))
                           THEN Append(wire, peek(Q)) ELSE wire
                /\ UNCHANGED snap
           ELSE Observe
        /\ UNCHANGED dvars

Next ==
    \/ \E a \in Addrs, n \in Bytes, t \in Times : Want(a, n, t)
    \/ \E b \in Data : Push(b)
    \/ \E a \in Addrs : Prepare(a)
    \/ Peek
    \/ Pop

Spec == Init /\ [][Next]_vars

(***************************************************************************)
(* Draining alone.  The queue starts with a packet of any size the buffer  *)
(* holds in the top slot, as want_to_send_for and the caller's pushes      *)
(* leave it, and possibly a fresh sync packet in the slot below; from then *)
(* on only prepare_to_send_to, peek and pop are called.                    *)
(***************************************************************************)
Filled(a, n) ==
    LET d == CHOOSE x \in Data : TRUE
    IN  [k \in 1 .. n |-> IF k = 1 /\ a # SYNC_ADDR THEN a ELSE d]

InitDrain ==
    /\ \E a \in Addrs, n \in 0 .. SENT_PACKET_LEN, below \in {FREE, SYNC_ADDR} :
          /\ a # SYNC_ADDR => n >= 1
          /\ que = [i \in Slots |->
                      IF i = QueueLen - 1
                      THEN [addr |-> a, time |-> 0, packet |-> Filled(a, n)]
                      ELSE IF i = QueueLen - 2
                      THEN [addr |-> below, time |-> 0, packet |-> << >>]
                      ELSE Item_clear]
    /\ sending = nullptr
    /\ prologue = << >>
    /\ cmac = << >>
    /\ last = Call("init", 0)
    /\ snap = NoSnap
    /\ wire = << >>
    /\ RETRY_SKIPS = MaxSkips
    /\ Constructed

NextDrain ==
    \/ \E a \in Addrs : Prepare(a)
    \/ Peek
    \/ Pop

SpecDrain == InitDrain /\ [][NextDrain]_vars

(***************************************************************************)
(* A RequestDelay alone, for every RETRY_SKIPS from 0 to MaxSkips; the     *)
(* queue stays as constructed.                                             *)
(***************************************************************************)
InitDelay ==
    /\ que = [i \in Slots |-> Item_clear]
    /\ sending = nullptr
    /\ prologue = << >>
    /\ cmac = << >>
    /\ last = Call("init", 0)
    /\ snap = NoSnap
    /\ wire = << >>
    /\ RETRY_SKIPS \in 0 .. MaxSkips
    /\ Constructed

NextDelay ==
    \/ ShouldRetry
    \/ PauseDelay
    \/ ResumeDelay
    \/ IsPaused

SpecDelay == InitDelay /\ [][NextDelay]_vars

(***************************************************************************)
(* Vocabulary of the properties.                                           *)
(***************************************************************************)
IsOpen(it) == it.addr # FREE /\ it.addr # FROZEN
IsStale(it, curtime) == it.time + packet_max_age < curtime
Room(it) == SENT_PACKET_LEN - Len(it.packet)
FrozenSlots == {i \in Slots : que[i].addr = FROZEN}

\* the frame a successful prepare_to_send_to promises: preamble, sync word,
\* length byte, payload, tag, two dummies
Promised(s) ==
    LET L == ((Len(s.payload) + CMAC_SIZE) % 128)
             + (IF s.addr = SYNC_ADDR THEN 128 ELSE 0)
    IN  <<170, 170, 45, 212, L>> \o s.payload \o SubSeq(s.cmac, 1, CMAC_SIZE)
        \o <<170, 170>>

(***************************************************************************)
(* C1  Frame shape.  From a successful prepare_to_send_to(a) to the pop    *)
(* that returns false, the bytes peek() gives before each pop() are, in    *)
(* order, 0xAA 0xAA 0x2D 0xD4 L, the payload as prepare left it, the tag   *)
(* and 0xAA 0xAA, whatever want_to_send_for calls come between the pops.   *)
(***************************************************************************)
C1_FrameShape ==
    snap.addr # nullptr =>
        /\ IsPrefix(wire, Promised(snap))
        /\ (last.op = "pop" /\ last.ret = 0 => wire = Promised(snap))

(***************************************************************************)
(* C2  Single in-flight.  At most one slot has addr = -2, and sending is   *)
(* non-null iff some slot has addr = -2, and then it is that slot.         *)
(***************************************************************************)
C2_SingleInFlight ==
    /\ Cardinality(FrozenSlots) <= 1
    /\ (sending # nullptr) <=> (FrozenSlots # {})
    /\ sending # nullptr => que[sending].addr = FROZEN

(***************************************************************************)
(* C3  A frozen slot is exempt from want_to_send_for: in every state, no   *)
(* call, for any address and any curtime, returns the buffer of a slot     *)
(* with addr = -2 or changes that slot.                                    *)
(***************************************************************************)
C3_FrozenExempt ==
    \A a \in Addrs, n \in Bytes, t \in Times, i \in Slots :
        que[i].addr = FROZEN =>
            LET r == want_to_send_for(Q, a, n, t)
            IN  r.ret # i /\ r.q.que[i] = que[i]

(***************************************************************************)
(* C4  Coalescing.  A want_to_send_for for a unicast address that already  *)
(* has an open slot, not aged out, returns that slot's buffer.  Stated for *)
(* the calls the slot has room for, made when no slot in use is stale: the *)
(* buffer returned is the one of a slot that held the address before.      *)
(***************************************************************************)
C4_Coalescing ==
    \A a \in UnicastAddrs, n \in Bytes, t \in Times :
        LET r == want_to_send_for(Q, a, n, t)
        IN  ( /\ \E i \in Slots : /\ que[i].addr = a
                                  /\ ~IsStale(que[i], t)
                                  /\ Room(que[i]) > n
              /\ \A i \in Slots : que[i].addr = FREE \/ ~IsStale(que[i], t)
              /\ r.ret # nullptr )
                => que[r.ret].addr = a

(***************************************************************************)
(* C5  MAC over plaintext.  After a successful prepare_to_send_to the tag  *)
(* in the cmac buffer is the cmac of the packet as it stood before the     *)
(* call, for sync and non-sync frames, and for a non-sync frame it is not  *)
(* the cmac of the encrypted packet.                                       *)
(***************************************************************************)
C5_MacOverPlaintext ==
    snap.addr # nullptr =>
        /\ SubSeq(snap.cmac, 1, CMAC_SIZE) = cmac_fill(snap.plain, << >>)
        /\ snap.addr # SYNC_ADDR =>
               SubSeq(snap.cmac, 1, CMAC_SIZE) # cmac_fill(snap.payload, << >>)

C5_Witness ==
    /\ last.op = "prepare" /\ last.ret = 1
    /\ snap.addr \in UnicastAddrs
    /\ Len(snap.plain) = MaxLen

(***************************************************************************)
(* C6  Encryption iff non-sync.  After a successful prepare_to_send_to(a)  *)
(* the frozen packet is the encryption of the packet before the call when  *)
(* a is a unicast address and is that packet unchanged when a is           *)
(* SYNC_ADDR; its length is the same in both cases.                        *)
(***************************************************************************)
C6_EncryptIffNonSync ==
    (last.op = "prepare" /\ last.ret = 1) =>
        /\ sending # nullptr
        /\ Len(que[sending].packet) = Len(snap.plain)
        /\ snap.addr = SYNC_ADDR => que[sending].packet = snap.plain
        /\ snap.addr # SYNC_ADDR =>
               /\ que[sending].packet = encrypt_decrypt(snap.plain)
               /\ que[sending].packet # snap.plain

C6_Witness ==
    /\ last.op = "prepare" /\ last.ret = 1
    /\ snap.addr = SYNC_ADDR
    /\ Len(snap.plain) > 0

(***************************************************************************)
(* C7  Sync non-coalescing.  A successful want_to_send_for(SYNC_ADDR, ..)  *)
(* returns an empty buffer of a slot that was free or stale before the     *)
(* call, never the buffer of an open slot that is not stale; a second sync *)
(* reserve right after a first, at the same curtime, gets another slot.    *)
(***************************************************************************)
C7_SyncNonCoalescing ==
    \A n \in Bytes, t \in Times :
        LET r == want_to_send_for(Q, SYNC_ADDR, n, t)
        IN  r.ret # nullptr =>
              /\ r.q.que[r.ret].packet = << >>
              /\ que[r.ret].addr = FREE \/ IsStale(que[r.ret], t)
              /\ ~(IsOpen(que[r.ret]) /\ ~IsStale(que[r.ret], t))
              /\ ( /\ last.op = "want"
                   /\ last.ret # nullptr
                   /\ que[last.ret].addr = SYNC_ADDR
                   /\ que[last.ret].time = t ) => r.ret # last.ret

\* two sync reserves in a row at one curtime, in two slots
C7_Witness ==
    /\ last.op = "want" /\ last.ret # nullptr
    /\ que[last.ret].addr = SYNC_ADDR
    /\ que[last.ret].packet = << >>
    /\ \E j \in Slots : /\ j > last.ret
                        /\ que[j].addr = SYNC_ADDR
                        /\ que[j].time = que[last.ret].time

(***************************************************************************)
(* C8  Queue full.  want_to_send_for(addr, bytes, curtime) returns nullptr *)
(* iff no slot is free, no slot is stale and no slot holds the same        *)
(* non-sync addr with free_size() > bytes; a failing call changes nothing. *)
(***************************************************************************)
C8_QueueFull ==
    \A a \in Addrs, n \in Bytes, t \in Times :
        LET r == want_to_send_for(Q, a, n, t)
        IN  /\ (r.ret = nullptr) <=>
                   \A i \in Slots :
                       /\ que[i].addr # FREE
                       /\ ~(que[i].time + packet_max_age < t)
                       /\ ~(a # SYNC_ADDR /\ que[i].addr = a /\ Room(que[i]) > n)
            /\ r.ret = nullptr => r.q = Q

\* a reserve has just failed
C8_Witness ==
    /\ last.op = "want" /\ last.ret = nullptr
    /\ \A i \in Slots : IsOpen(que[i])

(***************************************************************************)
(* C9  Aging is the only eviction.  want_to_send_for(a, .., curtime)       *)
(* changes an open slot only if slot.time + packet_max_age < curtime (one  *)
(* holding another address is never overwritten at or before that bound),  *)
(* and the slot claimed then has addr = a, time = curtime and holds just   *)
(* the byte a (unicast) or nothing (SYNC).                                 *)
(***************************************************************************)
C9_AgingEviction ==
    \A a \in Addrs, n \in Bytes, t \in Times, i \in Slots :
        LET r == want_to_send_for(Q, a, n, t)
        IN  (IsOpen(que[i]) /\ r.q.que[i] # que[i]) =>
              /\ que[i].time + packet_max_age < t
              /\ r.ret = i
              /\ r.q.que[i].addr = a
              /\ r.q.que[i].time = t
              /\ r.q.que[i].packet = IF a = SYNC_ADDR THEN << >> ELSE <<a>>

\* an open slot with data of one address, stale, which a reserve for another
\* address then claims
C9_Witness ==
    \E a \in Addrs, n \in Bytes, t \in Times :
        LET r == want_to_send_for(Q, a, n, t)
        IN  /\ r.ret # nullptr
            /\ IsOpen(que[r.ret])
            /\ que[r.ret].addr # a
            /\ Len(que[r.ret].packet) = MaxLen
            /\ r.q.que[r.ret].addr = a

(***************************************************************************)
(* C10  Prepare while busy.  While a frame is frozen prepare_to_send_to(b) *)
(* returns false for every b and changes nothing; right after the pop that *)
(* returns false it returns true if an open slot for b exists.             *)
(***************************************************************************)
C10_PrepareWhileBusy ==
    \A b \in Addrs :
        LET r == prepare_to_send_to(Q, b)
        IN  /\ sending # nullptr => (~r.ret /\ r.q = Q)
            /\ ( /\ last.op = "pop" /\ last.ret = 0
                 /\ \E i \in Slots : que[i].addr = b ) => r.ret

\* a prepare has just been refused while a frame is frozen and another packet
\* waits in an open slot
C10_Witness ==
    /\ last.op = "prepare" /\ last.ret = 0
    /\ sending # nullptr
    /\ que[sending].addr = FROZEN
    /\ \E i \in Slots : IsOpen(que[i]) /\ Len(que[i].packet) = MaxLen


(***************************************************************************)
(* C11  pop().  While a frame is being sent pop() removes one byte from    *)
(* the first non-empty of prologue, packet and cmac, and returns true iff  *)
(* a byte of the frame remains; it returns false exactly when it removes   *)
(* the last byte of the cmac buffer, and then the prologue and cmac        *)
(* buffers are empty, the slot sent is free (addr = -1, time = 0, empty    *)
(* packet) and sending is null.  With no frame being sent it returns false *)
(* and changes nothing.                                                    *)
(***************************************************************************)
C11_PopContract ==
    LET r == pop(Q)
    IN  IF sending = nullptr THEN ~r.ret /\ r.q = Q
        ELSE LET pk == que[sending].packet
                 total == Len(prologue) + Len(pk) + Len(cmac)
             IN  /\ r.ret <=> total > 1
                 /\ ~r.ret <=> (prologue = << >> /\ pk = << >> /\ Len(cmac) = 1)
                 /\ r.ret =>
                      r.q = IF prologue # << >>
                            THEN [Q EXCEPT !.prologue = Tail(prologue)]
                            ELSE IF pk # << >>
                            THEN [Q EXCEPT !.que[sending].packet = Tail(pk)]
                            ELSE [Q EXCEPT !.cmac = Tail(cmac)]
                 /\ ~r.ret =>
                      r.q = [Q EXCEPT !.prologue = << >>,
                                      !.cmac = << >>,
                                      !.que[sending] =
                                          [addr |-> -1, time |-> 0, packet |-> << >>],
                                      !.sending = nullptr]

\* a whole frame with a full payload has been popped
C11_Witness ==
    /\ last.op = "pop" /\ last.ret = 0
    /\ snap.addr # nullptr
    /\ Len(snap.payload) = MaxLen
    /\ wire = Promised(snap)

(***************************************************************************)
(* C12  peek().  peek() returns -1 iff sending is null; otherwise it       *)
(* returns a value in 0..255, the head of the first non-empty of prologue, *)
(* packet of the slot sent and cmac.  It changes nothing: a peek() right   *)
(* after a peek() returns the same value.                                  *)
(***************************************************************************)
C12_PeekContract ==
    /\ (peek(Q) = -1) <=> (sending = nullptr)
    /\ sending # nullptr =>
          /\ peek(Q) \in 0 .. 255
          /\ peek(Q) = Head(prologue \o que[sending].packet \o cmac)
    /\ last.op = "peek" => peek(Q) = last.ret

\* a peek has given a byte of the packet
C12_Witness ==
    /\ last.op = "peek" /\ last.ret # -1
    /\ sending # nullptr
    /\ que[sending].addr = FROZEN
    /\ prologue = << >>
    /\ que[sending].packet # << >>


(***************************************************************************)
(* C13  Oldest first.  When several open slots hold the same address,      *)
(* prepare_to_send_to for it freezes the one populated first.  Stated for  *)
(* SYNC_ADDR, which every reserve populates afresh: right after a sync     *)
(* reserve, with an earlier sync packet still open and no frame being      *)
(* sent, prepare_to_send_to(SYNC_ADDR) does not freeze the slot that the   *)
(* reserve has just populated.                                             *)
(***************************************************************************)
C13_OldestFirst ==
    ( /\ last.op = "want" /\ last.ret # nullptr
      /\ sending = nullptr
      /\ que[last.ret].addr = SYNC_ADDR
      /\ \E j \in Slots \ {last.ret} : que[j].addr = SYNC_ADDR )
        => prepare_to_send_to(Q, SYNC_ADDR).q.sending # last.ret

(***************************************************************************)
(* C14  Distinct addresses.  In every reachable state no two open slots    *)
(* hold the same non-sync address.                                         *)
(***************************************************************************)
C14_DistinctAddrs ==
    \A i, j \in Slots :
        ( /\ i # j
          /\ IsOpen(que[i]) /\ IsOpen(que[j])
          /\ que[i].addr # SYNC_ADDR )
            => que[i].addr # que[j].addr


(***************************************************************************)
(* C15  First byte of a unicast payload.  Whenever prepare_to_send_to(a)   *)
(* succeeds for a unicast address a, the packet of the slot it freezes is  *)
(* non-empty and its first byte, before encryption, is a.                  *)
(***************************************************************************)
C15_FirstByte ==
    \A a \in UnicastAddrs :
        LET r == prepare_to_send_to(Q, a)
        IN  r.ret =>
              /\ que[r.q.sending].packet # << >>
              /\ Head(que[r.q.sending].packet) = a

\* a unicast packet of the address alone has just been frozen
C15_Witness ==
    /\ last.op = "prepare" /\ last.ret = 1
    /\ snap.addr \in UnicastAddrs
    /\ snap.plain = <<snap.addr>>


(***************************************************************************)
(* C16  Length byte.  The fifth prologue byte that prepare_to_send_to      *)
(* builds, (payload_size + mac_size) | (isSync ? 0x80 : 0) cut to 8 bits,  *)
(* equals ((payload_size + mac_size) & 0x7F) | (isSync ? 0x80 : 0) for     *)
(* every payload size 0..76 and the 4-byte MAC; its high bit is never set  *)
(* for a non-sync frame.  Checked under SpecDrain.                         *)
(***************************************************************************)
C16_LengthByte ==
    snap.addr # nullptr =>
        LET L == snap.prologue[PROLOGUE_LEN]
            n == Len(snap.payload)
        IN  /\ L = ((n + 4) % 128) + (IF snap.addr = SYNC_ADDR THEN 128 ELSE 0)
            /\ snap.addr # SYNC_ADDR => L < 128

\* a sync frame of the largest payload has been prepared
C16_Witness ==
    /\ last.op = "prepare" /\ last.ret = 1
    /\ snap.addr = SYNC_ADDR
    /\ Len(snap.payload) = SENT_PACKET_LEN

(***************************************************************************)
(* C18  Drain terminates.  After prepare_to_send_to returned true for a    *)
(* packet of n bytes and a MAC of m bytes, with only peek and pop called   *)
(* since, the (5 + n + m + 2)-th pop is the first to return false; after   *)
(* it peek returns -1, sending is null, no slot has addr = -2 and the slot *)
(* that was frozen is free.  Checked under SpecDrain.                      *)
(***************************************************************************)
C18_DrainTerminates ==
    snap.addr # nullptr =>
        LET total == 5 + Len(snap.payload) + 4 + 2
        IN  /\ Len(wire) <= total
            /\ last.op = "pop" => (last.ret = 0 <=> Len(wire) = total)
            /\ (last.op = "pop" /\ last.ret = 0) =>
                  /\ peek(Q) = -1
                  /\ sending = nullptr
                  /\ FrozenSlots = {}
                  /\ que[snap.slot] = [addr |-> -1, time |-> 0, packet |-> << >>]

\* the frame of a full unicast packet has been drained to its last byte
C18_Witness ==
    /\ last.op = "pop" /\ last.ret = 0
    /\ snap.addr \in UnicastAddrs
    /\ Len(wire) = PROLOGUE_LEN + SENT_PACKET_LEN + CMAC_LEN


(***************************************************************************)
(* C17  Prepare selection.  When no frame is frozen, prepare_to_send_to(a) *)
(* freezes the lowest-indexed slot whose addr equals a and leaves every    *)
(* other slot, other slots holding a included, unchanged; if no slot holds *)
(* a it returns false, changes no slot, leaves sending null and leaves the *)
(* prologue and MAC buffers untouched.                                     *)
(***************************************************************************)
C17_PrepareSelection ==
    sending = nullptr =>
        \A a \in Addrs :
            LET r == prepare_to_send_to(Q, a)
                holders == {i \in Slots : que[i].addr = a}
            IN  IF holders = {}
                THEN ~r.ret /\ r.q = Q
                ELSE LET lo == CHOOSE i \in holders : \A j \in holders : i <= j
                     IN  /\ r.ret
                         /\ r.q.sending = lo
                         /\ r.q.que[lo].addr = FROZEN
                         /\ \A j \in Slots \ {lo} : r.q.que[j] = que[j]

\* slot 0 has been frozen while a higher slot still holds the same address
C17_Witness ==
    /\ last.op = "prepare" /\ last.ret = 1
    /\ sending = 0
    /\ que[sending].addr = FROZEN
    /\ \E j \in Slots \ {sending} : que[j].addr = snap.addr


(***************************************************************************)
(* C19  Coalescing leaves the slot untouched.  When want_to_send_for(a,    *)
(* bytes, curtime) returns an already populated slot for a (same non-sync  *)
(* addr, free_size() > bytes), the call changes nothing in any slot: the   *)
(* slot's time is not refreshed to curtime, even when the slot is already  *)
(* too old, its addr and bytes are unchanged, and no other slot is         *)
(* claimed.                                                                *)
(***************************************************************************)
C19_CoalesceUntouched ==
    \A a \in UnicastAddrs, n \in Bytes, t \in Times :
        LET r == want_to_send_for(Q, a, n, t)
        IN  (/\ r.ret # nullptr
             /\ que[r.ret].addr = a
             /\ Room(que[r.ret]) > n) => r.q = Q

\* a call has returned a populated unicast packet, which a later call made
\* when the packet is too old returns again as it is
C19_Witness ==
    /\ last.op = "want" /\ last.ret # nullptr
    /\ que[last.ret].addr \in UnicastAddrs
    /\ Len(que[last.ret].packet) >= 2
    /\ \E n \in Bytes, t \in Times :
          LET r == want_to_send_for(Q, que[last.ret].addr, n, t)
          IN  /\ IsStale(que[last.ret], t)
              /\ r.ret = last.ret
              /\ r.q = Q


(***************************************************************************)
(* C20  Requested space is available.  Whenever want_to_send_for(addr,     *)
(* bytes, curtime) returns a buffer, that buffer's free_size() at the      *)
(* moment of return is at least bytes, for a coalesced slot as well as for *)
(* a freshly claimed (free or too old) slot.                               *)
(***************************************************************************)
C20_SpaceAvailable ==
    \A a \in Addrs, n \in Bytes, t \in Times :
        LET r == want_to_send_for(Q, a, n, t)
        IN  r.ret # nullptr =>
                sq_free_size(r.q.que[r.ret].packet, SENT_PACKET_LEN) >= n


(***************************************************************************)
(* C21  Retry pacing.  A RequestDelay starts paused; while paused          *)
(* (initially or after pause()) should_retry() returns false and does not  *)
(* change the counter; after resume() the first should_retry() returns     *)
(* true, and from then on, with neither pause() nor resume() called,       *)
(* should_retry() returns false exactly RETRY_SKIPS times between any two  *)
(* consecutive true results; is_paused() is true iff the last of pause(),  *)
(* resume() and construction was not resume().  Checked under SpecDelay.   *)
(***************************************************************************)
C21_RetryPacing ==
    LET r == should_retry(counter, RETRY_SKIPS)
    IN  /\ is_paused(counter) <=> ~resumed
        /\ last.op = "init" => is_paused(counter)
        /\ ~resumed => (~r.ret /\ r.counter = counter)
        /\ (last.op = "should_retry" /\ ~resumed) => last.ret = 0
        /\ (resumed /\ falses = -1) => r.ret
        /\ (resumed /\ falses >= 0) => (r.ret <=> falses = RETRY_SKIPS)
        /\ falses <= RETRY_SKIPS
        /\ gap # -1 => gap = RETRY_SKIPS

\* a second true result has come, after the largest number of skips
C21_Witness ==
    /\ last.op = "should_retry" /\ last.ret = 1
    /\ RETRY_SKIPS = MaxSkips
    /\ gap = RETRY_SKIPS

====
